---- MODULE Spec2Model ----
(***************************************************************************)
(* G2J Inventory Management System: the sales run of reorder_generator.py  *)
(* (count_sales, check_inventory_levels, create_reorder_records,           *)
(* generate_reorder_report) and the delivery confirmation of               *)
(* inventory_gui.py (InventoryApp.confirm_order_from_file), each run on    *)
(* its own database connection against one MySQL (InnoDB) store.           *)
(*                                                                         *)
(* Text is modelled as a sequence of one-character strings, a file as a    *)
(* sequence of lines (without the line terminator), a Counter / dict as a  *)
(* sequence of entries in insertion order.                                 *)
(*                                                                         *)
(* The store is modelled as InnoDB behaves with pymysql's defaults         *)
(* (autocommit off, REPEATABLE READ): a plain SELECT reads the             *)
(* transaction's read view (taken at its first SELECT) overlaid with its   *)
(* own writes; an UPDATE takes the row's exclusive lock until the          *)
(* transaction ends and, where the statement computes from the column      *)
(* (current_quantity + x), reads the latest committed value; every         *)
(* statement may fail with a MySQLError (lost connection, lock wait        *)
(* timeout, deadlock victim).                                              *)
(***************************************************************************)
EXTENDS Integers, Sequences, FiniteSets, TLC

\* ------------------------------------------------------------------ bounds
\* Largest case_size of a catalog product
MaxCaseSize == 2
\* Longest sales file of the sequential specification
MaxLines == 5
\* Longest input file of a run of the concurrent specification
MaxConcLines == 2
\* Largest reading of the wall clock
MaxClock == 1
\* Catalog data at start: current_quantity, reorder_point, reorder_quantity
InitQty == 3
InitReorderPoint == 2
InitReorderQty == 6

\* Longest reorder file of the confirmation specification
MaxReorderLines == 3
\* Longest sales file of the permutation specification
MaxPermLines == 3
MaxTwiceLines == 2
MaxAdminLines == 1

\* Independent runs (each a process with its own database connection)
Runs == {1, 2}
\* product_id of the catalog's products
ProductIds == {1, 2}

\* The product_id the table gives the next row inserted, and every
\* product_id a row can have
NewProductId == Cardinality(ProductIds) + 1
AllProductIds == ProductIds \cup {NewProductId}

\* An optional value: None or Some(x)
None == <<>>
Some(x) == <<x>>

\* ------------------------------------------------------------------ text
Whitespace == {" "}

\* The UPC of product p in the catalog: one digit, the product's number.
Digit(p) == IF p = 1 THEN "1" ELSE IF p = 2 THEN "2" ELSE IF p = 3 THEN "3" ELSE "4"
UpcOf(p) == <<Digit(p)>>
\* A UPC that no product of the catalog carries.
UnknownUpc == <<"9">>
BlankLine == <<>>

\* The text generate_reorder_report writes for an empty reorder list.
NoItemsLine ==
  <<"N","o"," ","i","t","e","m","s"," ","n","e","e","d"," ","t","o"," ",
    "b","e"," ","r","e","o","r","d","e","r","e","d",".">>

RECURSIVE lstrip(_)
lstrip(s) == IF s # <<>> /\ Head(s) \in Whitespace THEN lstrip(Tail(s)) ELSE s

RECURSIVE rstrip(_)
rstrip(s) ==
  IF s # <<>> /\ s[Len(s)] \in Whitespace THEN rstrip(SubSeq(s, 1, Len(s) - 1)) ELSE s

\* str.strip()
strip(s) == rstrip(lstrip(s))

\* The decimal digits, by value
DigitChars == <<"0", "1", "2", "3", "4", "5", "6", "7", "8", "9">>

DigitValue(c) == (CHOOSE i \in 1..Len(DigitChars) : DigitChars[i] = c) - 1

RECURSIVE NatOf(_)
NatOf(digits) ==
  IF digits = <<>> THEN 0
  ELSE NatOf(SubSeq(digits, 1, Len(digits) - 1)) * Len(DigitChars)
       + DigitValue(digits[Len(digits)])

\* int(text): Some(number) for optional whitespace, an optional sign and
\* digits; None where Python raises ValueError
int(text) ==
  LET t == strip(text)
      signed == t # <<>> /\ t[1] \in {"-", "+"}
      digits == IF signed THEN Tail(t) ELSE t
  IN  IF digits # <<>> /\ \A i \in 1..Len(digits) :
                            \E j \in 1..Len(DigitChars) : DigitChars[j] = digits[i]
      THEN Some(IF signed /\ t[1] = "-" THEN 0 - NatOf(digits) ELSE NatOf(digits))
      ELSE None

RECURSIVE StrNat(_)
StrNat(n) ==
  IF n < Len(DigitChars) THEN <<DigitChars[n + 1]>>
  ELSE StrNat(n \div Len(DigitChars)) \o <<DigitChars[(n % Len(DigitChars)) + 1]>>

\* str(n), the text a StringVar holds once set to the integer n
str(n) == IF n < 0 THEN <<"-">> \o StrNat(0 - n) ELSE StrNat(n)

\* Mutant of StripNonBlank: blank lines are kept
RECURSIVE StripAll(_)
StripAll(lines) ==
  IF lines = <<>> THEN <<>> ELSE <<strip(Head(lines))>> \o StripAll(Tail(lines))

\* [line.strip() for line in file if line.strip()]
RECURSIVE StripNonBlank(_)
StripNonBlank(lines) ==
  IF lines = <<>> THEN <<>>
  ELSE IF strip(Head(lines)) # <<>>
       THEN <<strip(Head(lines))>> \o StripNonBlank(Tail(lines))
       ELSE StripNonBlank(Tail(lines))

\* Counter: entries [upc, count] in the order of first occurrence.
CounterIndex(c, u) ==
  IF \E i \in 1..Len(c) : c[i].upc = u
  THEN CHOOSE i \in 1..Len(c) : c[i].upc = u
  ELSE 0

\* Mutant of CounterAdd: a UPC is counted with the entry before it only
CounterAddAdjacent(c, u) ==
  IF c # <<>> /\ c[Len(c)].upc = u
  THEN [c EXCEPT ![Len(c)].count = @ + 1]
  ELSE Append(c, [upc |-> u, count |-> 1])

\* Mutant of CounterAdd: a new UPC goes to the front
CounterAddFront(c, u) ==
  IF CounterIndex(c, u) = 0
  THEN <<[upc |-> u, count |-> 1]>> \o c
  ELSE [c EXCEPT ![CounterIndex(c, u)].count = @ + 1]

CounterAdd(c, u) ==
  IF CounterIndex(c, u) = 0
  THEN Append(c, [upc |-> u, count |-> 1])
  ELSE [c EXCEPT ![CounterIndex(c, u)].count = @ + 1]

RECURSIVE CounterFrom(_, _)
CounterFrom(c, upcs) ==
  IF upcs = <<>> THEN c ELSE CounterFrom(CounterAdd(c, Head(upcs)), Tail(upcs))

Counter(upcs) == CounterFrom(<<>>, upcs)

\* count_sales on a readable file
count_sales(lines) == Counter(StripNonBlank(lines))

\* Number of units of UPC u in a Counter (Counter[u], 0 when absent)
CountOf(c, u) == IF CounterIndex(c, u) = 0 THEN 0 ELSE c[CounterIndex(c, u)].count

RECURSIVE Repeat(_, _)
Repeat(x, n) == IF n <= 0 THEN <<>> ELSE <<x>> \o Repeat(x, n - 1)

\* Mutant of ReportLines: one line per unit instead of one line per case
RECURSIVE ReportLinesPerUnit(_)
ReportLinesPerUnit(reorder_list) ==
  IF reorder_list = <<>> THEN <<>>
  ELSE Repeat(Head(reorder_list).upc,
              Head(reorder_list).cases_consumed * Head(reorder_list).case_size)
       \o ReportLinesPerUnit(Tail(reorder_list))

\* Mutant of ReportLines: the last decision's lines come first
RECURSIVE ReportLinesReversed(_)
ReportLinesReversed(reorder_list) ==
  IF reorder_list = <<>> THEN <<>>
  ELSE ReportLinesReversed(Tail(reorder_list))
       \o Repeat(Head(reorder_list).upc, Head(reorder_list).cases_consumed)

\* The lines generate_reorder_report writes for a non-empty reorder list
RECURSIVE ReportLines(_)
ReportLines(reorder_list) ==
  IF reorder_list = <<>> THEN <<>>
  ELSE Repeat(Head(reorder_list).upc, Head(reorder_list).cases_consumed)
       \o ReportLines(Tail(reorder_list))

\* What generate_reorder_report leaves in the output file
ReportFile(reorder_list) ==
  IF reorder_list = <<>> THEN <<NoItemsLine>> ELSE ReportLines(reorder_list)

\* All sequences over S of length at most n
RECURSIVE SeqsUpTo(_, _)
SeqsUpTo(S, n) ==
  IF n = 0 THEN {<<>>}
  ELSE LET shorter == SeqsUpTo(S, n - 1)
       IN  shorter \cup {Append(s, x) : s \in {t \in shorter : Len(t) = n - 1}, x \in S}

\* ------------------------------------------------------------------ state
VARIABLES
  products,   \* table products: product_id -> row
  reorders,   \* table reorders: the committed rows, in insertion order
  files,      \* directory ReOrder_Lists: file name (its timestamp) -> lines
  lock,       \* InnoDB row locks on products: product_id -> holding run, 0 if free
  conn,       \* each run's connection: its open transaction
  run,        \* each run's local variables and position
  now         \* the wall clock (datetime.now())

vars == <<products, reorders, files, lock, conn, run, now>>

\* A connection with no open transaction
FreshConn ==
  [writes  |-> [p \in AllProductIds |-> None],   \* uncommitted current_quantity per row
   inserts |-> <<>>,                          \* uncommitted rows of reorders
   view    |-> None,                          \* the read view, once a SELECT took it
   reorders_view |-> None]                    \* table reorders in that read view

IdleRun ==
  [kind |-> "none", pc |-> "idle", error |-> "", output_file |-> 0,
   sales_data |-> <<>>, idx |-> 0, product |-> None,
   products_with_cases_consumed |-> <<>>, reorder_list |-> <<>>, current_date |-> 0,
   upc_counts |-> <<>>, processed_count |-> 0, updated_products |-> 0,
   skipped_upcs |-> {}, product_info |-> None,
   warnings |-> {},      \* the UPCs of the warnings printed
   observed |-> <<>>,    \* the rows a reader fetched
   uncommitted |-> 0,    \* ghost: rows inserted and not committed when it read
   input_file |-> None,  \* ghost: the lines of the file the run is given
   qty_before |-> [p \in ProductIds |-> 0]]

\* current_quantity of every product, as committed
Quantities == [p \in ProductIds |-> products[p].current_quantity]

\* Table products where column case_size of product p holds columns[p]: None
\* (NULL, which the driver returns as Python's None) or Some(integer).
\* case_size_int says whether the value fetched is an int.
CatalogOf(columns) ==
  [p \in ProductIds |->
     [product_id |-> p, upc |-> UpcOf(p), current_quantity |-> InitQty,
      case_size |-> IF columns[p] = None THEN 0 ELSE columns[p][1],
      case_size_int |-> columns[p] # None,
      reorder_point |-> InitReorderPoint, reorder_quantity |-> InitReorderQty]]

Catalog(case_sizes) == CatalogOf([p \in ProductIds |-> Some(case_sizes[p])])

\* The state before any run, with the input file of each run
InitGiven(catalog, input_files) ==
  /\ products = catalog
  /\ reorders = <<>>
  /\ files = [t \in 0..MaxClock |-> None]
  /\ lock = [p \in AllProductIds |-> 0]
  /\ conn = [r \in Runs |-> FreshConn]
  /\ run = [r \in Runs |-> [IdleRun EXCEPT !.input_file = input_files[r]]]
  /\ now = 0

InitWith(case_sizes) == InitGiven(Catalog(case_sizes), [r \in Runs |-> None])

Init == \E cs \in [ProductIds -> 1..MaxCaseSize] : InitWith(cs)

\* ------------------------------------------------------------------ store
\* The table a plain SELECT of run r reads: its read view if it has one
ReadView(r) == IF conn[r].view = None THEN products ELSE conn[r].view[1]

\* The read view of run r after a SELECT
ViewTaken(r) == IF conn[r].view = None THEN Some(products) ELSE conn[r].view

\* SELECT ... FROM products WHERE upc = %s ; fetchone(): None or Some(row),
\* current_quantity being the run's own uncommitted write if it has one
SelectByUpc(r, upc) ==
  LET hits == {p \in DOMAIN ReadView(r) : ReadView(r)[p].upc = upc}
  IN  IF hits = {} THEN None
      ELSE LET p == CHOOSE q \in hits : TRUE
               row == ReadView(r)[p]
           IN  Some(IF conn[r].writes[p] = None THEN row
                    ELSE [row EXCEPT !.current_quantity = conn[r].writes[p][1]])

\* Mutant of CurrentQuantity: the UPDATE computes from the quantity the
\* catalog began with
CurrentQuantityInitial(r, p) == InitQty

\* The value of the column an UPDATE of run r computes from: the latest
\* committed one, or the run's own uncommitted write
CurrentQuantity(r, p) ==
  IF conn[r].writes[p] = None THEN products[p].current_quantity
  ELSE conn[r].writes[p][1]

\* Run r can take the row lock of product p
LockFree(r, p) == lock[p] \in {0, r}

\* The locks once run r's transaction has ended
Released(r) == [p \in AllProductIds |-> IF lock[p] = r THEN 0 ELSE lock[p]]

\* The table products after run r's transaction committed
Committed(r) ==
  [p \in DOMAIN products |->
     IF conn[r].writes[p] = None THEN products[p]
     ELSE [products[p] EXCEPT !.current_quantity = conn[r].writes[p][1]]]

\* Mutant of Rollback: the rows inserted so far stay in table reorders
RollbackKeepsInserts(r) ==
  /\ conn' = [conn EXCEPT ![r] = FreshConn]
  /\ lock' = Released(r)
  /\ reorders' = reorders \o conn[r].inserts
  /\ UNCHANGED products

\* Mutant of Rollback: the quantities written so far stay in table products
RollbackKeepsWrites(r) ==
  /\ conn' = [conn EXCEPT ![r] = FreshConn]
  /\ lock' = Released(r)
  /\ products' = Committed(r)
  /\ UNCHANGED reorders

\* connection.rollback(): the open transaction is discarded, its locks released
Rollback(r) ==
  /\ conn' = [conn EXCEPT ![r] = FreshConn]
  /\ lock' = Released(r)
  /\ UNCHANGED <<products, reorders>>

\* connection.commit()
Commit(r) ==
  /\ products' = Committed(r)
  /\ reorders' = reorders \o conn[r].inserts
  /\ conn' = [conn EXCEPT ![r] = FreshConn]
  /\ lock' = Released(r)

\* ------------------------------------------------------------------ sales run
\* The next position of a loop over a sequence of n entries, at entry i
Advance(i, n, again, after) == IF i + 1 > n THEN after ELSE again

\* What a failed run reports
InputFileNotFound == "Input file not found"
ErrorConnecting == "Error connecting to the database"
ErrorCheckingInventory == "Database error while checking inventory"
ErrorCreatingRecords == "Database error while creating reorder records"
ErrorGeneratingReport == "Error generating reorder report"
NoConnection == "Database connection is not available"
FileNotFound == "File not found"
FileEmpty == "File is empty or contains no valid UPCs"
DatabaseError == "Database error occurred"
UnhandledError == "Traceback (most recent call last)"

\* except pymysql.MySQLError: connection.rollback(); print(error); sys.exit(1)
SalesDbError(r, error) ==
  /\ Rollback(r)
  /\ run' = [run EXCEPT ![r].pc = "failed", ![r].error = error]
  /\ UNCHANGED <<files, now>>

\* Mutant of SalesBegin: a missing input file is read as an empty one
SalesBeginMissingAsEmpty(r, input_file, t) ==
  /\ run[r].pc = "idle"
  /\ t >= now
  /\ now' = t
  /\ \E connected \in BOOLEAN :
       run' = [run EXCEPT ![r] =
         IF ~connected
         THEN [@ EXCEPT !.kind = "sales", !.pc = "failed", !.output_file = t,
                        !.error = ErrorConnecting, !.qty_before = Quantities]
         ELSE LET sales_data == IF input_file = None THEN <<>>
                                ELSE count_sales(input_file[1])
              IN  [@ EXCEPT !.kind = "sales", !.output_file = t,
                            !.sales_data = sales_data, !.idx = 1,
                            !.pc = Advance(0, Len(sales_data), "chk_select", "chk_commit"),
                            !.qty_before = Quantities]]
  /\ UNCHANGED <<products, reorders, files, lock, conn>>

\* main, up to the call of check_inventory_levels: the output file's name is
\* taken from the clock (which reads t), the input file (None: it does not
\* exist) is counted and the database is connected; a missing file or a
\* refused connection ends the process with sys.exit(1)
SalesBegin(r, input_file, t) ==
  /\ run[r].pc = "idle"
  /\ t >= now
  /\ now' = t
  /\ \E connected \in BOOLEAN :
       run' = [run EXCEPT ![r] =
         IF input_file = None \/ ~connected
         THEN [@ EXCEPT !.kind = "sales", !.pc = "failed", !.output_file = t,
                        !.error = IF input_file = None THEN InputFileNotFound
                                  ELSE ErrorConnecting,
                        !.qty_before = Quantities]
         ELSE LET sales_data == count_sales(input_file[1])
              IN  [@ EXCEPT !.kind = "sales", !.output_file = t,
                            !.sales_data = sales_data, !.idx = 1,
                            !.pc = Advance(0, Len(sales_data), "chk_select", "chk_commit"),
                            !.qty_before = Quantities]]
  /\ UNCHANGED <<products, reorders, files, lock, conn>>

\* Mutant of NewQuantity: the quantity is clamped at zero
NewQuantityClamped(product, quantity_sold) ==
  IF product.current_quantity - quantity_sold < 0 THEN 0
  ELSE product.current_quantity - quantity_sold

\* new_quantity = product['current_quantity'] - quantity_sold
NewQuantity(product, quantity_sold) == product.current_quantity - quantity_sold

\* Position of product_id in products_with_cases_consumed, 0 if absent
ConsumedIndex(consumed, product_id) ==
  IF \E i \in 1..Len(consumed) : consumed[i].product_id = product_id
  THEN CHOOSE i \in 1..Len(consumed) : consumed[i].product_id = product_id
  ELSE 0

\* Mutant of CasesConsumed: a started case counts as a case (rounded up)
CasesConsumedRoundUp(consumed, product, upc, quantity_sold, new_quantity) ==
  IF product.case_size > 0
  THEN Append(consumed,
         [product_id |-> product.product_id, upc |-> upc,
          current_quantity |-> new_quantity, case_size |-> product.case_size,
          cases_consumed |->
            (quantity_sold + product.case_size - 1) \div product.case_size])
  ELSE consumed

\* Mutant of CasesConsumed: the remainder of a partial case is discarded
CasesConsumedFloor(consumed, product, upc, quantity_sold, new_quantity) ==
  IF product.case_size > 0 /\ quantity_sold \div product.case_size > 0
  THEN Append(consumed,
         [product_id |-> product.product_id, upc |-> upc,
          current_quantity |-> new_quantity, case_size |-> product.case_size,
          cases_consumed |-> quantity_sold \div product.case_size])
  ELSE consumed

\* Mutant of CasesConsumed: a case_size that is not positive counts as 1
CasesConsumedAnyCaseSize(consumed, product, upc, quantity_sold, new_quantity) ==
  LET case_size == IF product.case_size > 0 THEN product.case_size ELSE 1
  IN  IF quantity_sold % case_size = 0 /\ quantity_sold \div case_size > 0
      THEN Append(consumed,
             [product_id |-> product.product_id, upc |-> upc,
              current_quantity |-> new_quantity, case_size |-> case_size,
              cases_consumed |-> quantity_sold \div case_size])
      ELSE consumed

\* Mutant of CasesConsumed: the cases are those missing from the stock the
\* catalog began with, whichever run sold them
CasesConsumedFromStock(consumed, product, upc, quantity_sold, new_quantity) ==
  IF product.case_size > 0 /\ (InitQty - new_quantity) \div product.case_size > 0
  THEN Append(consumed,
         [product_id |-> product.product_id, upc |-> upc,
          current_quantity |-> new_quantity, case_size |-> product.case_size,
          cases_consumed |-> (InitQty - new_quantity) \div product.case_size])
  ELSE consumed

\* products_with_cases_consumed after the case-multiple test of one UPC
CasesConsumed(consumed, product, upc, quantity_sold, new_quantity) ==
  IF product.case_size > 0 /\ quantity_sold % product.case_size = 0
  THEN LET cases_consumed == quantity_sold \div product.case_size
       IN  IF cases_consumed > 0
           THEN IF ConsumedIndex(consumed, product.product_id) # 0
                THEN [consumed EXCEPT
                        ![ConsumedIndex(consumed, product.product_id)].cases_consumed =
                           @ + cases_consumed]
                ELSE Append(consumed,
                       [product_id |-> product.product_id, upc |-> upc,
                        current_quantity |-> new_quantity,
                        case_size |-> product.case_size,
                        cases_consumed |-> cases_consumed])
           ELSE consumed
  ELSE consumed

\* check_inventory_levels: the SELECT of the loop's current UPC; an unknown
\* UPC prints a warning and the loop goes on
CheckSelect(r) ==
  /\ run[r].pc = "chk_select"
  /\ \/ LET upc == run[r].sales_data[run[r].idx].upc
            product == SelectByUpc(r, upc)
        IN  /\ conn' = [conn EXCEPT ![r].view = ViewTaken(r)]
            /\ run' = [run EXCEPT ![r] =
                 IF product = None
                 THEN [@ EXCEPT !.warnings = @ \cup {upc},
                                !.idx = @ + 1,
                                !.pc = Advance(run[r].idx, Len(run[r].sales_data),
                                               "chk_select", "chk_commit")]
                 ELSE [@ EXCEPT !.product = product, !.pc = "chk_update"]]
            /\ UNCHANGED <<products, reorders, files, lock, now>>
     \/ SalesDbError(r, ErrorCheckingInventory)

\* Mutant of CheckUpdate: the UPDATE waits for the row's lock without limit
CheckUpdateWaitsForever(r) ==
  /\ run[r].pc = "chk_update"
  /\ LET entry == run[r].sales_data[run[r].idx]
         product == run[r].product[1]
         new_quantity == NewQuantity(product, entry.count)
     IN  /\ LockFree(r, product.product_id)
         /\ lock' = [lock EXCEPT ![product.product_id] = r]
         /\ conn' = [conn EXCEPT ![r].writes[product.product_id] = Some(new_quantity)]
         /\ run' = [run EXCEPT ![r] =
              [@ EXCEPT !.products_with_cases_consumed =
                           CasesConsumed(@, product, entry.upc, entry.count, new_quantity),
                        !.product = None,
                        !.idx = @ + 1,
                        !.pc = Advance(run[r].idx, Len(run[r].sales_data),
                                       "chk_select", "chk_commit")]]
         /\ UNCHANGED <<products, reorders, files, now>>

\* check_inventory_levels: the UPDATE of the product just read, which waits
\* for the row's lock, and the case-multiple test. A case_size that is no
\* number (NULL) makes the comparison case_size > 0 raise a TypeError, which
\* nothing catches: main closes the connection, the open transaction is lost
\* and the process ends with a traceback.
CheckUpdate(r) ==
  /\ run[r].pc = "chk_update"
  /\ \/ LET entry == run[r].sales_data[run[r].idx]
            product == run[r].product[1]
            new_quantity == NewQuantity(product, entry.count)
        IN  /\ LockFree(r, product.product_id)
            /\ IF product.case_size_int
               THEN /\ lock' = [lock EXCEPT ![product.product_id] = r]
                    /\ conn' = [conn EXCEPT
                                  ![r].writes[product.product_id] = Some(new_quantity)]
                    /\ run' = [run EXCEPT ![r] =
                         [@ EXCEPT !.products_with_cases_consumed =
                                      CasesConsumed(@, product, entry.upc, entry.count,
                                                    new_quantity),
                                   !.product = None,
                                   !.idx = @ + 1,
                                   !.pc = Advance(run[r].idx, Len(run[r].sales_data),
                                                  "chk_select", "chk_commit")]]
                    /\ UNCHANGED <<products, reorders>>
               ELSE /\ Rollback(r)
                    /\ run' = [run EXCEPT ![r].pc = "failed", ![r].error = UnhandledError]
            /\ UNCHANGED <<files, now>>
     \/ SalesDbError(r, ErrorCheckingInventory)

\* Mutant of CheckCommit: the decrements are committed with the records only
CheckCommitDeferred(r, t) ==
  /\ run[r].pc = "chk_commit"
  /\ IF run[r].products_with_cases_consumed = <<>>
     THEN /\ t = now
          /\ Commit(r)
          /\ run' = [run EXCEPT ![r].pc = "report"]
     ELSE /\ t >= now
          /\ run' = [run EXCEPT ![r] =
               [@ EXCEPT !.reorder_list = run[r].products_with_cases_consumed,
                         !.current_date = t,
                         !.idx = 1,
                         !.pc = "rec_insert"]]
          /\ UNCHANGED <<products, reorders, conn, lock>>
  /\ now' = t
  /\ UNCHANGED files

\* check_inventory_levels: reorder_list and connection.commit(); then
\* create_reorder_records returns at once when the list is empty, and else
\* reads the clock (which reads t)
CheckCommit(r, t) ==
  /\ run[r].pc = "chk_commit"
  /\ \/ /\ Commit(r)
        /\ IF run[r].products_with_cases_consumed = <<>>
           THEN /\ t = now
                /\ run' = [run EXCEPT ![r].pc = "report"]
           ELSE /\ t >= now
                /\ run' = [run EXCEPT ![r] =
                     [@ EXCEPT !.reorder_list = run[r].products_with_cases_consumed,
                               !.current_date = t,
                               !.idx = 1,
                               !.pc = "rec_insert"]]
        /\ now' = t
        /\ UNCHANGED files
     \/ /\ t = now
        /\ SalesDbError(r, ErrorCheckingInventory)

\* Mutant of ReorderRecord: the clock is read for every row
ReorderRecordOwnTimestamp(r, item) ==
  [product_id |-> item.product_id,
   quantity |-> item.cases_consumed * item.case_size,
   date_requested |-> run[r].current_date + run[r].idx - 1,
   status |-> "PENDING"]

\* The row create_reorder_records inserts for one item of the reorder list
ReorderRecord(r, item) ==
  [product_id |-> item.product_id,
   quantity |-> item.cases_consumed * item.case_size,
   date_requested |-> run[r].current_date,
   status |-> "PENDING"]

\* Mutant of RecordInsert: every INSERT is committed on its own (autocommit)
RecordInsertAutocommit(r) ==
  /\ run[r].pc = "rec_insert"
  /\ reorders' = Append(reorders, ReorderRecord(r, run[r].reorder_list[run[r].idx]))
  /\ run' = [run EXCEPT ![r] =
       [@ EXCEPT !.idx = @ + 1,
                 !.pc = Advance(run[r].idx, Len(run[r].reorder_list),
                                "rec_insert", "rec_commit")]]
  /\ UNCHANGED <<products, files, lock, conn, now>>

\* create_reorder_records: the INSERT of the loop's current item
RecordInsert(r) ==
  /\ run[r].pc = "rec_insert"
  /\ \/ /\ conn' = [conn EXCEPT ![r].inserts =
                      Append(@, ReorderRecord(r, run[r].reorder_list[run[r].idx]))]
        /\ run' = [run EXCEPT ![r] =
             [@ EXCEPT !.idx = @ + 1,
                       !.pc = Advance(run[r].idx, Len(run[r].reorder_list),
                                      "rec_insert", "rec_commit")]]
        /\ UNCHANGED <<products, reorders, files, lock, now>>
     \/ SalesDbError(r, ErrorCreatingRecords)

\* create_reorder_records: connection.commit()
RecordCommit(r) ==
  /\ run[r].pc = "rec_commit"
  /\ \/ /\ Commit(r)
        /\ run' = [run EXCEPT ![r].pc = "report"]
        /\ UNCHANGED <<files, now>>
     \/ SalesDbError(r, ErrorCreatingRecords)

\* All proper and improper prefixes of a sequence
Prefixes(s) == {SubSeq(s, 1, n) : n \in 0..Len(s)}

\* generate_reorder_report: the output file is written; when open or write
\* raises, the process ends with sys.exit(1) and the file is absent or holds
\* a part of the text
GenerateReport(r) ==
  /\ run[r].pc = "report"
  /\ \/ /\ files' = [files EXCEPT ![run[r].output_file] =
                       Some(ReportFile(run[r].reorder_list))]
        /\ run' = [run EXCEPT ![r].pc = "done"]
     \/ /\ \E written \in {None} \cup
                          {Some(part) : part \in Prefixes(ReportFile(run[r].reorder_list))} :
             files' = [files EXCEPT ![run[r].output_file] =
                         IF written = None THEN @ ELSE written]
        /\ run' = [run EXCEPT ![r].pc = "failed", ![r].error = ErrorGeneratingReport]
  /\ UNCHANGED <<products, reorders, lock, conn, now>>

\* ------------------------------------------------------------------ delivery confirmation
\* Mutant of ConfirmDbError: the transaction is committed instead of rolled back
ConfirmDbErrorCommits(r) ==
  /\ Commit(r)
  /\ run' = [run EXCEPT ![r].pc = "failed", ![r].error = "Database error occurred"]
  /\ UNCHANGED <<files, now>>

\* except pymysql.MySQLError: self.db_connection.rollback(); return False, ...
ConfirmDbError(r) ==
  /\ Rollback(r)
  /\ run' = [run EXCEPT ![r].pc = "failed", ![r].error = DatabaseError]
  /\ UNCHANGED <<files, now>>

\* confirm_order_from_file, up to the loop: without a connection, with a
\* missing file (None) or with a file of no UPC it returns False; else the
\* lines are counted and the transaction begins
ConfirmBegin(r, file) ==
  /\ run[r].pc = "idle"
  /\ \E db_connection \in BOOLEAN, begun \in BOOLEAN :
       run' = [run EXCEPT ![r] =
         IF ~db_connection \/ file = None
         THEN [@ EXCEPT !.kind = "confirm", !.pc = "failed",
                        !.error = IF ~db_connection THEN NoConnection ELSE FileNotFound,
                        !.qty_before = Quantities]
         ELSE LET upcs == StripNonBlank(file[1])
                  upc_counts == Counter(upcs)
              IN  [@ EXCEPT !.kind = "confirm",
                            !.upc_counts = upc_counts,
                            !.processed_count = Len(upcs),
                            !.idx = 1,
                            !.pc = IF upc_counts = <<>> \/ ~begun THEN "failed"
                                   ELSE "cf_select",
                            !.error = IF upc_counts = <<>> THEN FileEmpty
                                      ELSE IF ~begun THEN DatabaseError ELSE "",
                            !.qty_before = Quantities]]
  /\ UNCHANGED <<products, reorders, files, lock, conn, now>>

\* Mutant of QuantityToAdd: one case per UPC, however many lines carry it
QuantityToAddOneCase(case_count, case_size) == case_size

\* quantity_to_add = case_count * case_size
QuantityToAdd(case_count, case_size) == case_count * case_size

\* Mutant of ConfirmSelect: an unknown UPC or an invalid case_size is passed
\* over without a word
ConfirmSelectSkipsSilently(r) ==
  /\ run[r].pc = "cf_select"
  /\ LET upc == run[r].upc_counts[run[r].idx].upc
         product_info == SelectByUpc(r, upc)
     IN  /\ conn' = [conn EXCEPT ![r].view = ViewTaken(r)]
         /\ run' = [run EXCEPT ![r] =
              IF product_info = None
                 \/ ~product_info[1].case_size_int \/ product_info[1].case_size <= 0
              THEN [@ EXCEPT !.idx = @ + 1,
                             !.pc = Advance(run[r].idx, Len(run[r].upc_counts),
                                            "cf_select", "cf_commit")]
              ELSE [@ EXCEPT !.product_info = product_info, !.pc = "cf_update"]]
         /\ UNCHANGED <<products, reorders, files, lock, now>>

\* if not isinstance(case_size, int) or case_size <= 0
InvalidCaseSize(product_info) ==
  ~product_info.case_size_int \/ product_info.case_size <= 0

\* confirm_order_from_file: the SELECT of the loop's current UPC; an unknown
\* UPC and a product whose case_size is no int or not positive are skipped
ConfirmSelect(r) ==
  /\ run[r].pc = "cf_select"
  /\ \/ LET upc == run[r].upc_counts[run[r].idx].upc
            product_info == SelectByUpc(r, upc)
        IN  /\ conn' = [conn EXCEPT ![r].view = ViewTaken(r)]
            /\ run' = [run EXCEPT ![r] =
                 IF product_info = None \/ InvalidCaseSize(product_info[1])
                 THEN [@ EXCEPT !.skipped_upcs = @ \cup {upc},
                                !.idx = @ + 1,
                                !.pc = Advance(run[r].idx, Len(run[r].upc_counts),
                                               "cf_select", "cf_commit")]
                 ELSE [@ EXCEPT !.product_info = product_info, !.pc = "cf_update"]]
            /\ UNCHANGED <<products, reorders, files, lock, now>>
     \/ ConfirmDbError(r)

\* confirm_order_from_file: UPDATE products SET current_quantity =
\* current_quantity + %s, which waits for the row's lock
ConfirmUpdate(r) ==
  /\ run[r].pc = "cf_update"
  /\ \/ LET entry == run[r].upc_counts[run[r].idx]
            product_info == run[r].product_info[1]
            product_id == product_info.product_id
            rows_affected == IF product_id \in DOMAIN products THEN 1 ELSE 0
        IN  /\ LockFree(r, product_id)
            /\ lock' = [lock EXCEPT ![product_id] = r]
            /\ conn' = [conn EXCEPT ![r].writes[product_id] =
                 Some(CurrentQuantity(r, product_id)
                      + QuantityToAdd(entry.count, product_info.case_size))]
            /\ run' = [run EXCEPT ![r] =
                 [@ EXCEPT !.updated_products = IF rows_affected > 0 THEN @ + 1 ELSE @,
                           !.skipped_upcs = IF rows_affected > 0 THEN @ ELSE @ \cup {entry.upc},
                           !.product_info = None,
                           !.idx = @ + 1,
                           !.pc = Advance(run[r].idx, Len(run[r].upc_counts),
                                          "cf_select", "cf_commit")]]
            /\ UNCHANGED <<products, reorders, files, now>>
     \/ ConfirmDbError(r)

\* Mutant of ConfirmCommit: the reorder records of the products updated are
\* marked CONFIRMED
ConfirmCommitMarksConfirmed(r) ==
  /\ run[r].pc = "cf_commit"
  /\ \/ /\ products' = Committed(r)
        /\ reorders' = [i \in 1..Len(reorders) |->
             IF conn[r].writes[reorders[i].product_id] = None THEN reorders[i]
             ELSE [reorders[i] EXCEPT !.status = "CONFIRMED"]]
        /\ conn' = [conn EXCEPT ![r] = FreshConn]
        /\ lock' = Released(r)
        /\ run' = [run EXCEPT ![r].pc = "done"]
        /\ UNCHANGED <<files, now>>
     \/ ConfirmDbError(r)

\* confirm_order_from_file: self.db_connection.commit() and return True, summary
ConfirmCommit(r) ==
  /\ run[r].pc = "cf_commit"
  /\ \/ /\ Commit(r)
        /\ run' = [run EXCEPT ![r].pc = "done"]
        /\ UNCHANGED <<files, now>>
     \/ ConfirmDbError(r)

\* Mutant of Summary: the lines are reported as the unique UPCs
SummaryLinesAsUnique(r) ==
  [lines_processed |-> run[r].processed_count,
   unique_upcs |-> run[r].processed_count,
   products_updated |-> run[r].updated_products,
   skipped |-> Cardinality(run[r].skipped_upcs),
   skipped_list |-> run[r].skipped_upcs]

\* confirm_order_from_file: summary_lines, by the numbers they show
Summary(r) ==
  [lines_processed |-> run[r].processed_count,
   unique_upcs |-> Len(run[r].upc_counts),
   products_updated |-> run[r].updated_products,
   skipped |-> Cardinality(run[r].skipped_upcs),
   skipped_list |-> run[r].skipped_upcs]

\* ------------------------------------------------------------------ product forms
InputError == "Input Error"
FormDatabaseError == "Database Error"
TclError == "TclError"

\* load_product: the form shows the row picked from the search results
LoadProduct(r, p) ==
  /\ run[r].pc = "idle"
  /\ p \in DOMAIN products
  /\ run' = [run EXCEPT ![r] =
       [@ EXCEPT !.kind = "edit", !.pc = "form", !.product = Some(products[p]),
                 !.qty_before = Quantities]]
  /\ UNCHANGED <<products, reorders, files, lock, conn, now>>

\* Mutant of InvalidInput: a case size of zero is let through
InvalidInputNegativeOnly(current_quantity, case_size, unit_price_valid) ==
  current_quantity < 0 \/ case_size < 0 \/ ~unit_price_valid

\* if current_quantity < 0 or case_size < 1 or unit_price < 0
InvalidInput(current_quantity, case_size, unit_price_valid) ==
  current_quantity < 0 \/ case_size < 1 \/ ~unit_price_valid

\* save_product and update_product: the fields are parsed and checked, then
\* UPDATE products SET ..., current_quantity = %s, case_size = %s, ... WHERE
\* product_id = %s and commit; unit_price_valid says that the price field
\* parses as a float that is not negative. Without a connection, or on a
\* MySQLError, update_product returns False and nothing is committed.
SaveProduct(r, qty_var, case_size_var, unit_price_valid) ==
  /\ run[r].pc = "form"
  /\ LET current_product == run[r].product[1]
         current_quantity == int(qty_var)
         case_size == int(case_size_var)
     IN  IF current_quantity = None \/ case_size = None
         THEN /\ run' = [run EXCEPT ![r].pc = "failed", ![r].error = InputError]
              /\ UNCHANGED products
         ELSE IF InvalidInput(current_quantity[1], case_size[1], unit_price_valid)
         THEN /\ run' = [run EXCEPT ![r].pc = "failed", ![r].error = InputError]
              /\ UNCHANGED products
         ELSE \/ /\ LockFree(r, current_product.product_id)
                 /\ products' = [products EXCEPT ![current_product.product_id] =
                      [@ EXCEPT !.current_quantity = current_quantity[1],
                                !.case_size = case_size[1],
                                !.case_size_int = TRUE]]
                 /\ run' = [run EXCEPT ![r].pc = "done"]
              \/ /\ run' = [run EXCEPT ![r].pc = "failed",
                                        ![r].error = FormDatabaseError]
                 /\ UNCHANGED products
  /\ UNCHANGED <<reorders, files, lock, conn, now>>

\* save_new_item: qty_var and case_size_var are IntVars, whose get() raises
\* TclError (None) when the entry holds no number; UPC and name are
\* required and case_size must be at least 1; then INSERT INTO products and
\* commit. The columns the INSERT does not name take the table's defaults.
SaveNewItem(r, upc, product_name_given, qty_var, case_size_var) ==
  /\ run[r].pc = "idle"
  /\ NewProductId \notin DOMAIN products
  /\ IF qty_var = None \/ case_size_var = None
     THEN /\ run' = [run EXCEPT ![r] = [@ EXCEPT !.kind = "new", !.pc = "failed",
                                                  !.error = TclError]]
          /\ UNCHANGED products
     ELSE IF upc = <<>> \/ ~product_name_given \/ case_size_var[1] < 1
     THEN /\ run' = [run EXCEPT ![r] = [@ EXCEPT !.kind = "new", !.pc = "failed",
                                                  !.error = InputError]]
          /\ UNCHANGED products
     ELSE \/ /\ products' = products @@
                   (NewProductId :>
                      [product_id |-> NewProductId, upc |-> upc,
                       current_quantity |-> qty_var[1],
                       case_size |-> case_size_var[1], case_size_int |-> TRUE,
                       reorder_point |-> InitReorderPoint,
                       reorder_quantity |-> InitReorderQty])
             /\ run' = [run EXCEPT ![r] = [@ EXCEPT !.kind = "new", !.pc = "done"]]
          \/ /\ run' = [run EXCEPT ![r] = [@ EXCEPT !.kind = "new", !.pc = "failed",
                                                     !.error = FormDatabaseError]]
             /\ UNCHANGED products
  /\ UNCHANGED <<reorders, files, lock, conn, now>>

\* ------------------------------------------------------------------ inventory viewer
ViewerDatabaseError == "Database error"

\* The rows with status PENDING whose date_requested is at least d, ORDER BY
\* date_requested
RECURSIVE PendingFrom(_, _)
PendingFrom(rows, d) ==
  IF d > MaxClock THEN <<>>
  ELSE SelectSeq(rows, LAMBDA row : row.status = "PENDING" /\ row.date_requested = d)
       \o PendingFrom(rows, d + 1)

\* Rows inserted by the other runs and not committed
Uncommitted(r) ==
  LET others == {o \in Runs \ {r} : conn[o].inserts # <<>>}
  IN  IF others = {} THEN 0 ELSE Len(conn[CHOOSE o \in others : TRUE].inserts)

\* The connection of run r once a SELECT has been executed on it: the first
\* SELECT of the transaction takes the read view of all tables
Selected(r) ==
  IF conn[r].view = None
  THEN [conn EXCEPT ![r].view = Some(products), ![r].reorders_view = Some(reorders)]
  ELSE conn

\* generate_test-sales.py, main up to display_inventory: connect
ViewerBegin(r) ==
  /\ run[r].pc = "idle"
  /\ \E connected \in BOOLEAN :
       run' = [run EXCEPT ![r] =
         [@ EXCEPT !.kind = "viewer",
                   !.pc = IF connected THEN "vw_inventory" ELSE "failed",
                   !.error = IF connected THEN "" ELSE ErrorConnecting]]
  /\ UNCHANGED <<products, reorders, files, lock, conn, now>>

\* display_inventory: SELECT ... FROM products; a MySQLError is printed and
\* main goes on
DisplayInventory(r) ==
  /\ run[r].pc = "vw_inventory"
  /\ \/ /\ conn' = Selected(r)
        /\ run' = [run EXCEPT ![r].pc = "vw_reorders",
                              ![r].uncommitted = Uncommitted(r)]
     \/ /\ run' = [run EXCEPT ![r].pc = "vw_reorders", ![r].error = ViewerDatabaseError]
        /\ UNCHANGED conn
  /\ UNCHANGED <<products, reorders, files, lock, now>>

\* display_pending_reorders: SELECT ... FROM reorders ... WHERE status =
\* 'PENDING' ORDER BY date_requested, in the transaction display_inventory
\* opened; then main closes the connection
DisplayPendingReorders(r) ==
  /\ run[r].pc = "vw_reorders"
  /\ \/ run' = [run EXCEPT ![r].pc = "done",
                           ![r].observed = PendingFrom(Selected(r)[r].reorders_view[1], 0),
                           ![r].uncommitted = IF conn[r].view = None THEN Uncommitted(r)
                                              ELSE @]
     \/ run' = [run EXCEPT ![r].pc = "done", ![r].error = ViewerDatabaseError]
  /\ conn' = [conn EXCEPT ![r] = FreshConn]
  /\ UNCHANGED <<products, reorders, files, lock, now>>

\* ------------------------------------------------------------------ specifications
\* Lines of the input files
Lines == {UpcOf(p) : p \in ProductIds} \cup {UnknownUpc, BlankLine}

\* The files a run of the concurrent specification is given: missing, or
\* short text
ConcFiles ==
  {None} \cup {Some(f) : f \in SeqsUpTo({UpcOf(p) : p \in ProductIds}, MaxConcLines)}

\* The files in directory ReOrder_Lists
ReorderFiles == {files[t] : t \in 0..MaxClock} \ {None}

\* The steps of a sales run after its start; t is what the clock reads
SalesStep(r, t) ==
  \/ CheckSelect(r)
  \/ CheckUpdate(r)
  \/ CheckCommit(r, t)
  \/ RecordInsert(r)
  \/ RecordCommit(r)
  \/ GenerateReport(r)

ConfirmStep(r) ==
  \/ ConfirmSelect(r)
  \/ ConfirmUpdate(r)
  \/ ConfirmCommit(r)

\* Independent runs, each a sales run or a delivery confirmation, interleaved
\* statement by statement; time passes between two readings of the clock
Next ==
  \/ \E r \in Runs, f \in ConcFiles, t \in now..MaxClock : SalesBegin(r, f, t)
  \/ \E r \in Runs, f \in ConcFiles \cup ReorderFiles : ConfirmBegin(r, f)
  \/ \E r \in Runs, t \in now..MaxClock : SalesStep(r, t)
  \/ \E r \in Runs : ConfirmStep(r)

Spec == Init /\ [][Next]_vars

\* The files the sales run of the sequential specification is given
SeqFiles == {None} \cup {Some(f) : f \in SeqsUpTo(Lines, MaxLines)}

Ended(r) == run[r].pc \in {"done", "failed"}

\* One sales run (run 1) and, once it has ended, one delivery confirmation
\* (run 2) of a file of directory ReOrder_Lists or of a missing file, all
\* within one reading of the clock
NextSeq ==
  \/ /\ run[1].pc = "idle"
     /\ \E f \in SeqFiles : SalesBegin(1, f, now)
  \/ SalesStep(1, now)
  \/ /\ Ended(1)
     /\ \/ \E f \in {None} \cup ReorderFiles : ConfirmBegin(2, f)
        \/ ConfirmStep(2)

SpecSeq == Init /\ [][NextSeq]_vars

\* What column case_size of a row may hold: NULL or an integer, valid or not
CaseSizeColumns == {None} \cup {Some(n) : n \in -1..MaxCaseSize}

\* The reorder files given to the confirmation: missing, or short text
ReorderInputs == {None} \cup {Some(f) : f \in SeqsUpTo(Lines, MaxReorderLines)}

InitConfirm ==
  \E columns \in [ProductIds -> CaseSizeColumns], f \in ReorderInputs :
    InitGiven(CatalogOf(columns), [r \in Runs |-> IF r = 1 THEN f ELSE None])

\* One delivery confirmation (run 1) of any file, on any catalog
NextConfirm ==
  \/ ConfirmBegin(1, run[1].input_file)
  \/ ConfirmStep(1)

SpecConfirm == InitConfirm /\ [][NextConfirm]_vars

\* Lines of the sales files of the permutation specification: UPCs, a UPC
\* between spaces, a line of a space
PermLines ==
  {UpcOf(p) : p \in ProductIds} \cup {<<" ">> \o UpcOf(1) \o <<" ">>, <<" ">>}

\* g holds the lines of f in some order
IsPermutation(f, g) ==
  /\ Len(f) = Len(g)
  /\ \A x \in PermLines :
       Cardinality({i \in 1..Len(f) : f[i] = x}) = Cardinality({i \in 1..Len(g) : g[i] = x})

InitPerm ==
  \E cs \in [ProductIds -> 1..MaxCaseSize] :
    \E f \in SeqsUpTo(PermLines, MaxPermLines), g \in SeqsUpTo(PermLines, MaxPermLines) :
      /\ IsPermutation(f, g)
      /\ InitGiven(Catalog(cs), [r \in Runs |-> IF r = 1 THEN Some(f) ELSE Some(g)])

\* A sales run (run 1) on a file and, once it has completed, a sales run or a
\* delivery confirmation (run 2) on the lines of that file in some order, all
\* within one reading of the clock
NextPerm ==
  \/ SalesBegin(1, run[1].input_file, now)
  \/ SalesStep(1, now)
  \/ /\ run[1].pc = "done"
     /\ \/ SalesBegin(2, run[2].input_file, now)
        \/ SalesStep(2, now)
        \/ ConfirmBegin(2, run[2].input_file)
        \/ ConfirmStep(2)

SpecPerm == InitPerm /\ [][NextPerm]_vars

\* One sales run (run 1) on any catalog
InitAny ==
  \E columns \in [ProductIds -> CaseSizeColumns] :
    InitGiven(CatalogOf(columns), [r \in Runs |-> None])

NextAny ==
  \/ /\ run[1].pc = "idle"
     /\ \E f \in ConcFiles : SalesBegin(1, f, now)
  \/ SalesStep(1, now)

SpecAny == InitAny /\ [][NextAny]_vars

\* A sales run (run 1) and, once it has ended, a sales run or a delivery
\* confirmation (run 2), each on its own file (which may be the same one, or
\* missing), all within one reading of the clock
InitAgain ==
  \E cs \in [ProductIds -> 1..MaxCaseSize], f \in ConcFiles, g \in ConcFiles :
    InitGiven(Catalog(cs), [r \in Runs |-> IF r = 1 THEN f ELSE g])

NextAgain ==
  \/ SalesBegin(1, run[1].input_file, now)
  \/ SalesStep(1, now)
  \/ /\ Ended(1)
     /\ \/ SalesBegin(2, run[2].input_file, now)
        \/ SalesStep(2, now)
        \/ ConfirmBegin(2, run[2].input_file)
        \/ ConfirmStep(2)

SpecAgain == InitAgain /\ [][NextAgain]_vars

\* Two delivery confirmations of one file, the second (run 2) once the first
\* (run 1) has ended, on any catalog
InitTwice ==
  \E columns \in [ProductIds -> CaseSizeColumns],
     f \in {Some(g) : g \in SeqsUpTo(Lines, MaxTwiceLines)} :
    InitGiven(CatalogOf(columns), [r \in Runs |-> f])

NextTwice ==
  \/ ConfirmBegin(1, run[1].input_file)
  \/ ConfirmStep(1)
  \/ /\ Ended(1)
     /\ \/ ConfirmBegin(2, run[2].input_file)
        \/ ConfirmStep(2)

SpecTwice == InitTwice /\ [][NextTwice]_vars

\* The files of the runs whose ending is in question: missing, or naming
\* products in some order, each once (the lines of one UPC are one entry of
\* the Counter, and one UPDATE)
LiveFiles ==
  {None} \cup
  {Some(f) : f \in {g \in SeqsUpTo({UpcOf(p) : p \in ProductIds}, Cardinality(ProductIds)) :
                     \A i \in 1..Len(g), j \in 1..Len(g) : g[i] = g[j] => i = j}}

\* Two runs, each a sales run or a delivery confirmation of its own file,
\* interleaved statement by statement within one reading of the clock. A
\* process that has started goes on to its next statement, and a statement
\* that waits for a row lock is ended by the server with an error (deadlock
\* detection, lock wait timeout) when the lock does not come free: the
\* steps of each run are weakly fair. Whether a run is started is up to
\* the user.
InitLive ==
  \E cs \in [ProductIds -> 1..MaxCaseSize], f \in LiveFiles, g \in LiveFiles :
    InitGiven(Catalog(cs), [r \in Runs |-> IF r = 1 THEN f ELSE g])

RunStep(r) == SalesStep(r, now) \/ ConfirmStep(r)

NextLive ==
  \/ \E r \in Runs : SalesBegin(r, run[r].input_file, now)
  \/ \E r \in Runs : ConfirmBegin(r, run[r].input_file)
  \/ \E r \in Runs : RunStep(r)

SpecLive == InitLive /\ [][NextLive]_vars /\ \A r \in Runs : WF_vars(RunStep(r))

\* What the user types into a field of the edit form
FormTexts == {<<>>, <<"x">>, <<"-", "1">>, <<"0">>, <<" ", "2">>}

\* What an IntVar of the new item window gives: None for text that is no
\* number
IntVarValues == {None} \cup {Some(n) : n \in -1..MaxCaseSize}

\* The files of the run beside the forms: missing, or short text that may
\* name the new product
AdminFiles ==
  {None} \cup {Some(f) : f \in SeqsUpTo({UpcOf(p) : p \in ProductIds} \cup {UnknownUpc},
                                        MaxAdminLines)}

\* A sales run or a delivery confirmation (run 1) and the work of the user
\* at a form (run 2): a product is loaded into the edit form and saved, with
\* its fields as loaded or typed over, or a new item is saved; the two
\* interleave statement by statement within one reading of the clock
NextAdmin ==
  \/ /\ run[1].pc = "idle"
     /\ \E f \in AdminFiles : SalesBegin(1, f, now) \/ ConfirmBegin(1, f)
  \/ SalesStep(1, now)
  \/ ConfirmStep(1)
  \/ \E p \in ProductIds : LoadProduct(2, p)
  \/ /\ run[2].pc = "form"
     /\ \E qty_var \in FormTexts \cup {str(run[2].product[1].current_quantity)},
           case_size_var \in FormTexts \cup {str(run[2].product[1].case_size)},
           unit_price_valid \in BOOLEAN :
          SaveProduct(2, qty_var, case_size_var, unit_price_valid)
  \/ \E upc \in {<<>>, UnknownUpc}, product_name_given \in BOOLEAN,
        qty_var \in IntVarValues, case_size_var \in IntVarValues :
       SaveNewItem(2, upc, product_name_given, qty_var, case_size_var)

SpecAdmin == Init /\ [][NextAdmin]_vars

ViewerStep(r) ==
  \/ ViewerBegin(r)
  \/ DisplayInventory(r)
  \/ DisplayPendingReorders(r)

\* One sales run (run 1) and one run of the inventory viewer (run 2),
\* interleaved statement by statement while time passes
NextRead ==
  \/ /\ run[1].pc = "idle"
     /\ \E f \in ConcFiles, t \in now..MaxClock : SalesBegin(1, f, t)
  \/ \E t \in now..MaxClock : SalesStep(1, t)
  \/ ViewerStep(2)

SpecRead == Init /\ [][NextRead]_vars

\* ------------------------------------------------------------------ properties
\* Units of product p in the sales input of run r
UnitsSold(r, p) == CountOf(run[r].sales_data, UpcOf(p))

\* Cases of product p in the reorder file run r confirms
CasesReceived(r, p) == CountOf(run[r].upc_counts, UpcOf(p))

\* Run r is a sales run whose check_inventory_levels has committed
SalesCommitted(r) ==
  /\ run[r].kind = "sales"
  /\ run[r].pc \in {"rec_insert", "rec_commit", "report", "done"}

\* Run r is a delivery confirmation that has committed
ConfirmCommitted(r) == run[r].kind = "confirm" /\ run[r].pc = "done"

\* C1: once two concurrent sales runs have both committed, every product's
\* current_quantity is its initial quantity minus the units sold by the one
\* run minus the units sold by the other.
C1_NoLostDecrement ==
  (\A r \in Runs : SalesCommitted(r)) =>
    \A p \in ProductIds :
      products[p].current_quantity = InitQty - UnitsSold(1, p) - UnitsSold(2, p)

\* C2: once a sales run and a concurrent delivery confirmation have both
\* committed, every product's current_quantity is its initial quantity minus
\* the units sold plus the cases received times case_size.
C2_DeliveryNotOverwritten ==
  \A s \in Runs, c \in Runs :
    (SalesCommitted(s) /\ ConfirmCommitted(c)) =>
      \A p \in ProductIds :
        products[p].current_quantity =
          InitQty - UnitsSold(s, p) + CasesReceived(c, p) * products[p].case_size

\* Positions of the decisions for product p in the reorder list of run r
DecisionsFor(r, p) ==
  {i \in 1..Len(run[r].reorder_list) : run[r].reorder_list[i].product_id = p}

\* No reorder file exists
NoReorderFile == \A t \in 0..MaxClock : files[t] = None

\* C3: case-multiple strategy: a sales run that sold k * case_size units of
\* a product, k >= 1, lists exactly one decision for it, of k cases (k *
\* case_size units); a run that sold fewer than case_size units lists none.
C3_CaseMultiple ==
  \A r \in Runs : SalesCommitted(r) =>
    \A p \in ProductIds :
      LET sold == UnitsSold(r, p)
          case_size == products[p].case_size
          decisions == DecisionsFor(r, p)
      IN  /\ (sold >= case_size /\ sold % case_size = 0) =>
               /\ Cardinality(decisions) = 1
               /\ \A i \in decisions :
                    /\ run[r].reorder_list[i].cases_consumed = sold \div case_size
                    /\ run[r].reorder_list[i].cases_consumed
                         * run[r].reorder_list[i].case_size = sold
          /\ sold < case_size => decisions = {}

\* C3 witness: one run sold two full cases of one product (case_size 2) and
\* case_size - 1 units of another, and decided 2 cases for the first only.
C3_Witness ==
  \E r \in Runs, p \in ProductIds, q \in ProductIds :
    /\ SalesCommitted(r)
    /\ products[p].case_size = 2 /\ UnitsSold(r, p) = 4
    /\ \E i \in DecisionsFor(r, p) : run[r].reorder_list[i].cases_consumed = 2
    /\ UnitsSold(r, q) = products[q].case_size - 1 /\ UnitsSold(r, q) >= 1
    /\ DecisionsFor(r, q) = {}

\* C4 as claimed: a sales run that sold 2*case_size + (case_size - 1) units
\* of a product lists a decision of 2 cases for it.
C4_RemainderDiscarded ==
  \A r \in Runs : SalesCommitted(r) =>
    \A p \in ProductIds :
      UnitsSold(r, p) = 2 * products[p].case_size + (products[p].case_size - 1) =>
        \E i \in DecisionsFor(r, p) : run[r].reorder_list[i].cases_consumed = 2

\* C4 as amended: a sales run that sold 2*case_size + (case_size - 1) units
\* of a product lists one decision of 2 cases for it when case_size = 1 (the
\* units are then exactly 2 cases) and no decision for it when case_size >= 2
\* (the units are no exact multiple of case_size).
C4_RemainderBlocksDecision ==
  \A r \in Runs : SalesCommitted(r) =>
    \A p \in ProductIds :
      UnitsSold(r, p) = 2 * products[p].case_size + (products[p].case_size - 1) =>
        IF products[p].case_size = 1
        THEN /\ Cardinality(DecisionsFor(r, p)) = 1
             /\ \A i \in DecisionsFor(r, p) : run[r].reorder_list[i].cases_consumed = 2
        ELSE DecisionsFor(r, p) = {}

\* C4 witness: 5 units of a product of case_size 2 were sold and the run
\* lists no decision for it.
C4_Witness ==
  \E r \in Runs, p \in ProductIds :
    /\ SalesCommitted(r)
    /\ products[p].case_size = 2 /\ UnitsSold(r, p) = 5
    /\ DecisionsFor(r, p) = {}

\* C5: threshold strategy: a sales run that leaves a product it sold at or
\* below its reorder_point lists a decision for it of reorder_quantity units.
C5_ThresholdDecision ==
  \A r \in Runs : (SalesCommitted(r) /\ \A c \in Runs : run[c].kind # "confirm") =>
    \A p \in ProductIds :
      (UnitsSold(r, p) >= 1 /\ products[p].current_quantity <= products[p].reorder_point) =>
        \E i \in DecisionsFor(r, p) :
          run[r].reorder_list[i].cases_consumed * run[r].reorder_list[i].case_size
            = products[p].reorder_quantity

\* C6: round trip: once a sales run has written its reorder file and a
\* delivery confirmation has confirmed that file, every product the run
\* decided on has gained cases_consumed * case_size units and is back at its
\* quantity of before the sales run, and every other product is where it was
\* before the confirmation.
C6_RoundTrip ==
  \A s \in Runs, c \in Runs :
    (run[s].kind = "sales" /\ run[s].pc = "done" /\ ConfirmCommitted(c)) =>
      \A p \in ProductIds :
        IF DecisionsFor(s, p) # {}
        THEN \A i \in DecisionsFor(s, p) :
               /\ products[p].current_quantity =
                    run[c].qty_before[p]
                    + run[s].reorder_list[i].cases_consumed * run[s].reorder_list[i].case_size
               /\ products[p].current_quantity = run[s].qty_before[p]
        ELSE products[p].current_quantity = run[c].qty_before[p]

\* C6 witness: the file of a run that decided 2 cases for one product and
\* sold another without a decision was confirmed.
C6_Witness ==
  \E s \in Runs, c \in Runs, p \in ProductIds, q \in ProductIds :
    /\ run[s].kind = "sales" /\ run[s].pc = "done" /\ ConfirmCommitted(c)
    /\ \E i \in DecisionsFor(s, p) : run[s].reorder_list[i].cases_consumed = 2
    /\ UnitsSold(s, q) >= 1 /\ DecisionsFor(s, q) = {}
    /\ run[c].updated_products = 1

\* C7: every line of the reorder file a completed sales run wrote is the UPC
\* of a product of the run's decision list.
C7_FileLinesAreDecidedUpcs ==
  \A r \in Runs : (run[r].kind = "sales" /\ run[r].pc = "done") =>
    /\ files[run[r].output_file] # None
    /\ \A n \in 1..Len(files[run[r].output_file][1]) :
         \E i \in 1..Len(run[r].reorder_list) :
           run[r].reorder_list[i].upc = files[run[r].output_file][1][n]

\* C8: when inserting the reorder records failed, table reorders holds none
\* of the run's records and no reorder file was written.
C8_InsertFailureLeavesNothing ==
  \A r \in Runs :
    (run[r].kind = "sales" /\ run[r].pc = "failed" /\ run[r].error = ErrorCreatingRecords) =>
      reorders = <<>> /\ NoReorderFile

\* C8 witness: the insertion failed after at least one INSERT of the batch
\* had been executed.
C8_Witness ==
  \E r \in Runs :
    /\ run[r].kind = "sales" /\ run[r].pc = "failed"
    /\ run[r].error = ErrorCreatingRecords
    /\ Len(run[r].reorder_list) = 2 /\ run[r].idx >= 2

\* C9: after a delivery confirmation that failed on the store, every
\* product's current_quantity is what it was before the run.
C9_ConfirmFailureRollsBack ==
  \A r \in Runs :
    (run[r].kind = "confirm" /\ run[r].pc = "failed" /\ run[r].error = DatabaseError) =>
      Quantities = run[r].qty_before

\* C9 witness: the confirmation failed after it had updated a product.
C9_Witness ==
  \E r \in Runs :
    /\ run[r].kind = "confirm" /\ run[r].pc = "failed" /\ run[r].error = DatabaseError
    /\ run[r].updated_products >= 1

\* C10: after a sales run that failed on the store while applying the sales,
\* every product's current_quantity is what it was before the run, and there
\* is no reorder record and no reorder file.
C10_SalesFailureRollsBack ==
  \A r \in Runs :
    (run[r].kind = "sales" /\ run[r].pc = "failed"
       /\ run[r].error = ErrorCheckingInventory) =>
      /\ Quantities = run[r].qty_before
      /\ reorders = <<>>
      /\ NoReorderFile

\* C10 witness: the run failed after the UPDATE of its first product.
C10_Witness ==
  \E r \in Runs, p \in ProductIds :
    /\ run[r].kind = "sales" /\ run[r].pc = "failed"
    /\ run[r].error = ErrorCheckingInventory
    /\ run[r].idx >= 2 /\ run[r].sales_data[1].upc = UpcOf(p)

\* The reorder records of the decisions of sales run s, in list order
RecordsOf(s) ==
  [i \in 1..Len(run[s].reorder_list) |->
     [product_id |-> run[s].reorder_list[i].product_id,
      quantity |-> run[s].reorder_list[i].cases_consumed * run[s].reorder_list[i].case_size,
      date_requested |-> run[s].current_date,
      status |-> "PENDING"]]

\* C11: what a run of the inventory viewer concurrent with a sales run
\* fetched from table reorders is either no record or all the records of the
\* sales run's decisions, never some of them.
C11_NoPartialVisibility ==
  \A v \in Runs, s \in Runs :
    (run[v].kind = "viewer" /\ run[s].kind = "sales") =>
      run[v].observed = <<>> \/ run[v].observed = RecordsOf(s)

\* C11 witness: the viewer took its read view when the sales run had inserted
\* one of its two records and not committed, and fetched no record.
C11_Witness ==
  \E v \in Runs, s \in Runs :
    /\ run[v].kind = "viewer" /\ run[v].pc = "done" /\ run[v].error = ""
    /\ run[v].uncommitted = 1 /\ run[v].observed = <<>>
    /\ run[s].kind = "sales" /\ Len(run[s].reorder_list) = 2

\* The products that carry UPC upc
Carrying(upc) == {p \in ProductIds : products[p].upc = upc}

\* Product p has a case_size a delivery can be counted in
ValidProduct(p) == products[p].case_size_int /\ products[p].case_size >= 1

\* C12: when a delivery confirmation has completed, every UPC of the file
\* that names no product, or a product whose case_size is no integer or is
\* not positive, is in the skipped list and left no trace in the catalog,
\* and every other UPC of the file is not skipped and its product has gained
\* its cases times case_size.
C12_SkipsDoNotAbort ==
  \A r \in Runs : ConfirmCommitted(r) =>
    \A i \in 1..Len(run[r].upc_counts) :
      LET upc == run[r].upc_counts[i].upc
          case_count == run[r].upc_counts[i].count
      IN  IF \E p \in Carrying(upc) : ValidProduct(p)
          THEN /\ upc \notin run[r].skipped_upcs
               /\ \A p \in Carrying(upc) :
                    products[p].current_quantity =
                      run[r].qty_before[p] + case_count * products[p].case_size
          ELSE /\ upc \in run[r].skipped_upcs
               /\ \A p \in Carrying(upc) :
                    products[p].current_quantity = run[r].qty_before[p]

\* C12 witness: the file named an unknown UPC, then a product whose case_size
\* is NULL, then a valid product, and the confirmation skipped the first two
\* and updated the third.
C12_Witness ==
  \E r \in Runs, p \in ProductIds, q \in ProductIds :
    /\ ConfirmCommitted(r)
    /\ Len(run[r].upc_counts) = 3
    /\ run[r].upc_counts[1].upc = UnknownUpc
    /\ run[r].upc_counts[2].upc = UpcOf(p) /\ ~products[p].case_size_int
    /\ run[r].upc_counts[3].upc = UpcOf(q) /\ ValidProduct(q)
    /\ run[r].skipped_upcs = {UnknownUpc, UpcOf(p)}
    /\ run[r].updated_products = 1
    /\ products[q].current_quantity > run[r].qty_before[q]

\* A line holds a character that is no whitespace
NonBlank(line) == \E j \in 1..Len(line) : line[j] \notin Whitespace

\* The lines of a file that carry UPC upc, whitespace around it aside
LinesCarrying(lines, upc) ==
  {i \in 1..Len(lines) : NonBlank(lines[i]) /\ strip(lines[i]) = upc}

\* C14: when a delivery confirmation has completed, every valid product has
\* gained (number of lines of the file carrying its UPC) * case_size units,
\* wherever those lines stand in the file, every other product is unchanged,
\* the products updated are the valid products named and the UPCs skipped
\* are the other UPCs of the file.
C14_CasesTimesCaseSize ==
  \A r \in Runs : (ConfirmCommitted(r) /\ run[r].input_file # None) =>
    LET lines == run[r].input_file[1]
        named == {p \in ProductIds : LinesCarrying(lines, products[p].upc) # {}}
        valid == {p \in named : ValidProduct(p)}
        others == {strip(lines[i]) : i \in {j \in 1..Len(lines) : NonBlank(lines[j])}}
                    \ {products[p].upc : p \in valid}
    IN  /\ \A p \in ProductIds :
             products[p].current_quantity =
               IF p \in valid
               THEN run[r].qty_before[p]
                    + Cardinality(LinesCarrying(lines, products[p].upc))
                      * products[p].case_size
               ELSE run[r].qty_before[p]
        /\ run[r].updated_products = Cardinality(valid)
        /\ run[r].skipped_upcs = others

\* C14 witness: the file held two lines of a product of case_size 2 with a
\* line of another valid product between them; the first gained 4 units, 2
\* products were updated and none skipped.
C14_Witness ==
  \E r \in Runs, p \in ProductIds, q \in ProductIds :
    /\ ConfirmCommitted(r)
    /\ run[r].input_file = Some(<<UpcOf(p), UpcOf(q), UpcOf(p)>>)
    /\ p # q /\ ValidProduct(q)
    /\ products[p].case_size_int /\ products[p].case_size = 2
    /\ products[p].current_quantity = run[r].qty_before[p] + 4
    /\ run[r].updated_products = 2 /\ run[r].skipped_upcs = {}

\* C13: when a sales run has applied its input, every UPC of the input that
\* names no product is in the run's skip list.
C13_UnknownUpcInSkipList ==
  \A r \in Runs : SalesCommitted(r) =>
    \A i \in 1..Len(run[r].sales_data) :
      Carrying(run[r].sales_data[i].upc) = {} =>
        run[r].sales_data[i].upc \in run[r].skipped_upcs

\* C15: when a sales run has applied its input (and no delivery has been
\* confirmed since), every product's current_quantity is its quantity of
\* before the run minus its units sold, negative or not, with or without a
\* decision; a product the input does not name is unchanged.
C15_DecreasedByUnitsSold ==
  \A r \in Runs : (SalesCommitted(r) /\ \A c \in Runs : run[c].kind # "confirm") =>
    \A p \in ProductIds :
      products[p].current_quantity = run[r].qty_before[p] - UnitsSold(r, p)

\* C15 witness: a completed run oversold a product of case_size 2 by two
\* units without a decision for it and left another product alone.
C15_Witness ==
  \E r \in Runs, p \in ProductIds, q \in ProductIds :
    /\ run[r].kind = "sales" /\ run[r].pc = "done"
    /\ products[p].case_size = 2 /\ DecisionsFor(r, p) = {}
    /\ products[p].current_quantity = -2
    /\ UnitsSold(r, q) = 0 /\ products[q].current_quantity = run[r].qty_before[q]

\* The cases of the decisions before position i of a decision list
RECURSIVE CasesBefore(_, _)
CasesBefore(reorder_list, i) ==
  IF i <= 1 THEN 0
  ELSE CasesBefore(reorder_list, i - 1) + reorder_list[i - 1].cases_consumed

\* C19: the reorder file a completed sales run wrote for a non-empty decision
\* list holds, for each decision in list order, cases_consumed consecutive
\* lines of the decision's UPC and nothing else: sum(cases_consumed) lines.
C19_FileIsBlocksInOrder ==
  \A r \in Runs :
    (run[r].kind = "sales" /\ run[r].pc = "done" /\ run[r].reorder_list # <<>>) =>
      LET list == run[r].reorder_list
          file == files[run[r].output_file]
      IN  /\ file # None
          /\ Len(file[1]) = CasesBefore(list, Len(list) + 1)
          /\ \A i \in 1..Len(list) :
               \A k \in 1..list[i].cases_consumed :
                 file[1][CasesBefore(list, i) + k] = list[i].upc

\* C19 witness: a file of two lines of the first decision's UPC followed by
\* one line of the second decision's UPC.
C19_Witness ==
  \E r \in Runs :
    /\ run[r].kind = "sales" /\ run[r].pc = "done"
    /\ Len(run[r].reorder_list) = 2
    /\ run[r].reorder_list[1].cases_consumed = 2
    /\ run[r].reorder_list[1].upc # run[r].reorder_list[2].upc
    /\ files[run[r].output_file] =
         Some(<<run[r].reorder_list[1].upc, run[r].reorder_list[1].upc,
                run[r].reorder_list[2].upc>>)

\* Sales run r is past create_reorder_records
RecordsCreated(r) ==
  /\ run[r].kind = "sales"
  /\ \/ run[r].pc \in {"report", "done"}
     \/ run[r].pc = "failed" /\ run[r].error = ErrorGeneratingReport

\* C18: once the one sales run is past create_reorder_records, table
\* reorders holds exactly one record per decision, in list order, with the
\* decision's product_id, quantity = cases_consumed * case_size, status
\* PENDING and one request timestamp for all, read from the clock no earlier
\* than the run began; for an empty decision list the table holds nothing.
C18_OneRecordPerDecision ==
  \A r \in Runs : RecordsCreated(r) =>
    /\ Len(reorders) = Len(run[r].reorder_list)
    /\ \A i \in 1..Len(reorders) :
         /\ reorders[i].product_id = run[r].reorder_list[i].product_id
         /\ reorders[i].quantity =
              run[r].reorder_list[i].cases_consumed * run[r].reorder_list[i].case_size
         /\ reorders[i].status = "PENDING"
         /\ reorders[i].date_requested = reorders[1].date_requested
         /\ reorders[i].date_requested >= run[r].output_file

\* C18 witness: two records of one timestamp, read from the clock after the
\* run began.
C18_Witness ==
  \E r \in Runs :
    /\ RecordsCreated(r)
    /\ Len(reorders) = 2
    /\ reorders[1].date_requested > run[r].output_file
    /\ reorders[2].date_requested = reorders[1].date_requested
    /\ reorders[1].product_id # reorders[2].product_id

\* Sum of the counts of a Counter
RECURSIVE SumCounts(_)
SumCounts(c) == IF c = <<>> THEN 0 ELSE Head(c).count + SumCounts(Tail(c))

\* The lines of a file that are not blank
NonBlankLines(lines) == {i \in 1..Len(lines) : NonBlank(lines[i])}

\* Run r has counted its input file
Counted(r) ==
  \/ run[r].kind = "sales" /\ run[r].error \notin {InputFileNotFound, ErrorConnecting}
  \/ run[r].kind = "confirm" /\ run[r].error \notin {NoConnection, FileNotFound}

\* C16: the counts count_sales gives a sales run sum up to the number of
\* lines of its input file that hold more than whitespace; the counts of a
\* delivery confirmation sum up to its total of lines processed, which is
\* that number too.
C16_CountsSumToNonBlankLines ==
  \A r \in Runs : Counted(r) =>
    IF run[r].kind = "sales"
    THEN SumCounts(run[r].sales_data) = Cardinality(NonBlankLines(run[r].input_file[1]))
    ELSE /\ run[r].processed_count = SumCounts(run[r].upc_counts)
         /\ run[r].processed_count = Cardinality(NonBlankLines(run[r].input_file[1]))

\* C16 witness: a sales run counted 2 of the 3 lines of its file, one of
\* them a UPC between spaces, and a delivery confirmation processed 2 lines.
C16_Witness ==
  \E s \in Runs, c \in Runs :
    /\ run[s].kind = "sales" /\ Counted(s) /\ run[c].kind = "confirm" /\ Counted(c)
    /\ Len(run[s].input_file[1]) = 3 /\ SumCounts(run[s].sales_data) = 2
    /\ \E i \in 1..3 : run[s].input_file[1][i] = <<" ">> \o UpcOf(1) \o <<" ">>
    /\ run[c].processed_count = 2

\* The UPCs a Counter has an entry for
Keys(c) == {c[i].upc : i \in 1..Len(c)}

\* The cases sales run r decided for product p
RECURSIVE SumCases(_, _)
SumCases(reorder_list, p) ==
  IF reorder_list = <<>> THEN 0
  ELSE (IF Head(reorder_list).product_id = p THEN Head(reorder_list).cases_consumed ELSE 0)
       + SumCases(Tail(reorder_list), p)

\* C17: of two sales runs, the second on the lines of the first's file in
\* some order, both have the same count for every UPC as soon as both have
\* counted, and once the second has applied its input it has changed every
\* product's quantity by as much as the first did and decided as many cases
\* for every product.
C17_OrderIndependent ==
  (run[1].kind = "sales" /\ run[2].kind = "sales" /\ Counted(1) /\ Counted(2)) =>
    /\ Keys(run[1].sales_data) = Keys(run[2].sales_data)
    /\ \A u \in Keys(run[1].sales_data) :
         CountOf(run[1].sales_data, u) = CountOf(run[2].sales_data, u)
    /\ SalesCommitted(2) =>
         \A p \in ProductIds :
           /\ products[p].current_quantity - run[2].qty_before[p]
                = run[2].qty_before[p] - run[1].qty_before[p]
           /\ SumCases(run[2].reorder_list, p) = SumCases(run[1].reorder_list, p)

\* C17 witness: the first run's file held two lines of a product of
\* case_size 2 with a line of the other product between them, the second
\* run's file held them in another order, and both decided one case.
C17_Witness ==
  \E p \in ProductIds, q \in ProductIds :
    /\ run[1].kind = "sales" /\ run[2].kind = "sales" /\ SalesCommitted(2)
    /\ p # q /\ products[p].case_size = 2
    /\ LinesCarrying(run[1].input_file[1], UpcOf(p)) = {1, 3}
    /\ LinesCarrying(run[1].input_file[1], UpcOf(q)) = {2}
    /\ run[2].input_file # run[1].input_file
    /\ SumCases(run[1].reorder_list, p) = 1 /\ SumCases(run[2].reorder_list, p) = 1

\* The first line of a file that carries UPC upc
FirstLine(lines, upc) ==
  CHOOSE i \in LinesCarrying(lines, upc) : \A j \in LinesCarrying(lines, upc) : i <= j

\* C20: in the decision list of a sales run, a decision stands before
\* another exactly when its UPC first occurs in the sales file before the
\* other's.
C20_DecisionsInInputOrder ==
  \A r \in Runs : (SalesCommitted(r) /\ run[r].input_file # None) =>
    \A i \in 1..Len(run[r].reorder_list), j \in 1..Len(run[r].reorder_list) :
      i < j => FirstLine(run[r].input_file[1], run[r].reorder_list[i].upc)
                 < FirstLine(run[r].input_file[1], run[r].reorder_list[j].upc)

\* C20 witness: two decisions, the first for the product with the larger
\* product_id, whose UPC stands on the file's first line.
C20_Witness ==
  \E r \in Runs :
    /\ SalesCommitted(r) /\ run[r].input_file # None
    /\ Len(run[r].reorder_list) = 2
    /\ run[r].reorder_list[1].product_id > run[r].reorder_list[2].product_id
    /\ FirstLine(run[r].input_file[1], run[r].reorder_list[1].upc) = 1

\* C21: a product whose case_size is zero or negative gets no decision in a
\* sales run and stops nothing: the run never ends on a traceback because of
\* it, and once the run has applied its input every product named, that
\* product included, has lost its units sold and every product with a valid
\* case_size has its decision when its units sold are full cases.
C21_InvalidCaseSizeNoDecision ==
  \A r \in Runs :
    /\ (run[r].kind = "sales" /\ run[r].error = UnhandledError) =>
         \E p \in ProductIds : ~products[p].case_size_int /\ UnitsSold(r, p) >= 1
    /\ SalesCommitted(r) =>
         \A p \in ProductIds :
           /\ products[p].current_quantity = run[r].qty_before[p] - UnitsSold(r, p)
           /\ products[p].case_size <= 0 => DecisionsFor(r, p) = {}
           /\ (products[p].case_size >= 1 /\ UnitsSold(r, p) >= 1
                 /\ UnitsSold(r, p) % products[p].case_size = 0)
                => \E i \in DecisionsFor(r, p) :
                     run[r].reorder_list[i].cases_consumed * products[p].case_size
                       = UnitsSold(r, p)

\* C21 witness: a completed run whose input named first a product of
\* case_size 0, then a product of case_size 1, with a decision for the
\* second only.
C21_Witness ==
  \E r \in Runs, p \in ProductIds, q \in ProductIds :
    /\ run[r].kind = "sales" /\ run[r].pc = "done"
    /\ Len(run[r].sales_data) = 2
    /\ run[r].sales_data[1].upc = UpcOf(p) /\ run[r].sales_data[2].upc = UpcOf(q)
    /\ products[p].case_size_int /\ products[p].case_size = 0
    /\ products[q].case_size = 1
    /\ DecisionsFor(r, p) = {} /\ DecisionsFor(r, q) # {}
    /\ products[p].current_quantity = run[r].qty_before[p] - 1

C28_DecrementsSurviveInsertFailure ==
  \A s \in Runs :
    (run[s].kind = "sales" /\ run[s].pc = "failed"
       /\ run[s].error = ErrorCreatingRecords) =>
      \A o \in Runs \ {s} :
        /\ run[o].pc = "idle" =>
             /\ \A p \in ProductIds :
                  products[p].current_quantity = run[s].qty_before[p] - UnitsSold(s, p)
             /\ reorders = <<>> /\ NoReorderFile
        /\ (run[o].kind = "sales" /\ run[o].input_file = run[s].input_file
              /\ SalesCommitted(o)
              /\ \A p \in ProductIds :
                   run[o].qty_before[p] = run[s].qty_before[p] - UnitsSold(s, p)) =>
             \A p \in ProductIds :
               products[p].current_quantity = run[s].qty_before[p] - 2 * UnitsSold(s, p)

\* C28 witness: the first run failed while inserting its records, the second
\* run completed on the same file, and a product has lost its units twice.
C28_Witness ==
  \E p \in ProductIds :
    /\ run[1].kind = "sales" /\ run[1].pc = "failed"
    /\ run[1].error = ErrorCreatingRecords
    /\ run[2].kind = "sales" /\ run[2].pc = "done"
    /\ run[2].input_file = run[1].input_file
    /\ UnitsSold(1, p) = 2
    /\ products[p].current_quantity = InitQty - 4

\* Sum of function f over the finite set S
RECURSIVE SumOver(_, _)
SumOver(S, f) ==
  IF S = {} THEN 0
  ELSE LET x == CHOOSE y \in S : TRUE IN f[x] + SumOver(S \ {x}, f)

\* The units of product p in all the reorder records
RecordQuantity(p) ==
  SumOver({i \in 1..Len(reorders) : reorders[i].product_id = p},
          [i \in 1..Len(reorders) |-> reorders[i].quantity])

\* Sales run r has committed its decrements
Applied(r) ==
  \/ SalesCommitted(r)
  \/ /\ run[r].kind = "sales" /\ run[r].pc = "failed"
     /\ run[r].error \in {ErrorCreatingRecords, ErrorGeneratingReport}

\* C29: with sales runs one after the other, the units in a product's
\* reorder records are the units sold by those runs that sold full cases of
\* it and created their records, each run counted alone: at most the units
\* of the product sold by all the runs, which are the units gone from stock.
C29_RecordsWithinUnitsSold ==
  (\A c \in Runs : run[c].kind # "confirm") =>
    \A p \in ProductIds :
      LET Sold == [r \in Runs |-> IF Applied(r) THEN UnitsSold(r, p) ELSE 0]
          FullCases == [r \in Runs |->
            IF RecordsCreated(r) /\ UnitsSold(r, p) % products[p].case_size = 0
            THEN UnitsSold(r, p) ELSE 0]
      IN  /\ RecordQuantity(p) = SumOver(Runs, FullCases)
          /\ RecordQuantity(p) <= SumOver(Runs, Sold)
          /\ (\A r \in Runs : run[r].pc \in {"idle", "done", "failed"}) =>
               SumOver(Runs, Sold) = InitQty - products[p].current_quantity

\* C29 witness: two completed runs each sold one unit of a product of
\* case_size 2: a full case is gone and there is no record for it.
C29_Witness ==
  \E p \in ProductIds :
    /\ \A r \in Runs : run[r].kind = "sales" /\ run[r].pc = "done"
                         /\ UnitsSold(r, p) = 1
    /\ products[p].case_size = 2
    /\ products[p].current_quantity = InitQty - 2
    /\ RecordQuantity(p) = 0

\* C23: the summary of a completed delivery confirmation shows as lines
\* processed the non-blank lines of the file, as unique UPCs the distinct
\* UPCs on them, as updated and skipped two numbers that add up to the
\* unique UPCs, and lists every UPC that was skipped: those of the file that
\* name no product or a product without a valid case_size.
C23_SummaryConsistent ==
  \A r \in Runs : (ConfirmCommitted(r) /\ run[r].input_file # None) =>
    LET lines == run[r].input_file[1]
        upcs == {strip(lines[i]) : i \in NonBlankLines(lines)}
    IN  /\ Summary(r).lines_processed = Cardinality(NonBlankLines(lines))
        /\ Summary(r).unique_upcs = Cardinality(upcs)
        /\ Summary(r).products_updated + Summary(r).skipped = Summary(r).unique_upcs
        /\ Summary(r).skipped = Cardinality(Summary(r).skipped_list)
        /\ Summary(r).skipped_list =
             {u \in upcs : \A p \in Carrying(u) : ~ValidProduct(p)}

\* C23 witness: a file of a blank line, a line of a valid product and a line
\* of an unknown UPC.
C23_Witness ==
  \E r \in Runs :
    /\ ConfirmCommitted(r) /\ run[r].input_file # None
    /\ Len(run[r].input_file[1]) = 3
    /\ Summary(r) = [lines_processed |-> 2, unique_upcs |-> 2,
                      products_updated |-> 1, skipped |-> 1,
                      skipped_list |-> {UnknownUpc}]

\* C27: a reorder record, once in table reorders, stays there as it was
\* inserted, with status PENDING, and no step of a delivery confirmation
\* changes table reorders at all.
C27_ConfirmationKeepsRecords ==
  [][/\ Len(reorders') >= Len(reorders)
     /\ \A i \in 1..Len(reorders) : reorders'[i] = reorders[i]
     /\ \A i \in 1..Len(reorders') : reorders'[i].status = "PENDING"
     /\ \A r \in Runs :
          (run'[r] # run[r] /\ run'[r].kind = "confirm") => reorders' = reorders]_vars

\* C27 witness: a delivery confirmation has completed and updated the
\* product of a reorder record, which is still PENDING with its quantity.
C27_Witness ==
  \E r \in Runs, i \in 1..Len(reorders) :
    /\ ConfirmCommitted(r)
    /\ products[reorders[i].product_id].current_quantity
         = run[r].qty_before[reorders[i].product_id] + reorders[i].quantity
    /\ reorders[i].quantity >= 1
    /\ reorders[i].status = "PENDING"

\* C30: after n completed delivery confirmations of one file, every valid
\* product stands n * (lines of the file carrying its UPC) * case_size above
\* where it began, every other product where it began, and neither table
\* reorders nor directory ReOrder_Lists holds a trace of the confirmations.
C30_ConfirmationNotIdempotent ==
  (\A r \in Runs : run[r].input_file = run[1].input_file /\ run[r].input_file # None
                    /\ run[r].kind # "sales") =>
    LET n == Cardinality({r \in Runs : ConfirmCommitted(r)})
        lines == run[1].input_file[1]
    IN  /\ \A p \in ProductIds :
             products[p].current_quantity =
               IF ValidProduct(p)
               THEN InitQty + n * Cardinality(LinesCarrying(lines, UpcOf(p)))
                                * products[p].case_size
               ELSE InitQty
        /\ reorders = <<>> /\ NoReorderFile

\* C30 witness: a file of two lines of a product of case_size 2 confirmed
\* twice: the product stands 8 above where it began.
C30_Witness ==
  \E p \in ProductIds :
    /\ \A r \in Runs : ConfirmCommitted(r)
                         /\ run[r].input_file = Some(<<UpcOf(p), UpcOf(p)>>)
    /\ products[p].case_size = 2
    /\ products[p].current_quantity = InitQty + 8

\* C26: every sales run and every delivery confirmation that has started,
\* alone or beside another run on the same products, ends completed or
\* failed.
C26_EveryRunEnds ==
  \A r \in Runs : (run[r].pc # "idle") ~> Ended(r)

\* C26 witness: two runs each hold the row lock of the product the other's
\* UPDATE waits for.
C26_Witness ==
  \E r \in Runs, o \in Runs, p \in ProductIds, q \in ProductIds :
    /\ r # o /\ p # q
    /\ lock[p] = r /\ lock[q] = o
    /\ run[r].pc = "chk_update" /\ run[r].product[1].product_id = q
    /\ \/ run[o].pc = "chk_update" /\ run[o].product[1].product_id = p
       \/ run[o].pc = "cf_update" /\ run[o].product_info[1].product_id = p

\* C24: a step that changes the current_quantity of a product is a step of
\* a sales run or of a delivery confirmation.
C24_QuantityOnlyBySalesOrConfirmation ==
  [][\A p \in DOMAIN products :
       products'[p].current_quantity # products[p].current_quantity =>
         \E r \in Runs : run'[r] # run[r] /\ run[r].kind \in {"sales", "confirm"}]_vars

\* C25: every product has an integer case_size of at least 1, before and
\* after every step of a sales run, a delivery confirmation, the edit form
\* and the new item window; and a step in which a form reports an input
\* error leaves table products as it was.
C25_CaseSizeStaysValid ==
  [][/\ \A p \in DOMAIN products :
          products[p].case_size_int /\ products[p].case_size >= 1
     /\ \A p \in DOMAIN products' :
          products'[p].case_size_int /\ products'[p].case_size >= 1
     /\ \A r \in Runs :
          (run[r].error = "" /\ run'[r].error \in {InputError, TclError}) =>
            products' = products]_vars

\* C25 witness: a new item of case_size 1 has been saved and a completed
\* sales run has decided a case of it.
C25_Witness ==
  /\ NewProductId \in DOMAIN products
  /\ products[NewProductId].case_size = 1
  /\ run[2].kind = "new" /\ run[2].pc = "done"
  /\ run[1].kind = "sales" /\ run[1].pc = "done"
  /\ Len(run[1].reorder_list) = 1
  /\ run[1].reorder_list[1].product_id = NewProductId

====
